---- MODULE Spec2Model ----
(***************************************************************************)
(* build_personal_m3u.py: the playlist rewriter as a state machine.        *)
(*                                                                         *)
(* Text is modelled character by character: a Python str is a TLA+ string, *)
(* read with Len, SubSeq and \o.  The parser accepts only ASCII inside a   *)
(* string literal, so the Hangul labels of the two tables are written in   *)
(* Revised Romanization with every word prefixed by "~" (a character no    *)
(* input, key or marker of the model contains), and the star of the        *)
(* favourites group is written "*".  Like the Hangul originals, these      *)
(* stand-ins hold no genre key, no resolution marker, no quote, comma,     *)
(* backslash or " - ".                                                     *)
(***************************************************************************)
EXTENDS Naturals, Sequences, FiniteSets, TLC

VARIABLES
    input,           \* the lines of the file at input_path (as readlines gives them)
    fav_patterns,    \* the compiled favourites (literal, case-insensitive patterns)
    append_res_tag,  \* the --append_resolution_tag flag
    pc,              \* position in build_personalised_playlist
    lines,           \* local: infile.readlines()
    i,               \* local: scan index (0-based, as in the source)
    out_lines,       \* local: the accumulated output lines
    rec,             \* locals of the current iteration: extinf, url, name, group_title
    outfile,         \* the file at output_path: whether it exists, and its text
    run,             \* 1: first run; 2: the run over the first run's output
    first_input,     \* in run 2: the lines the first run read
    arg,             \* the argument of a pure function under test
    ret              \* its result

vars == <<input, fav_patterns, append_res_tag, pc, lines, i, out_lines, rec,
          outfile, run, first_input, arg, ret>>

-----------------------------------------------------------------------------
(* Python str primitives *)

Char(s, k) == SubSeq(s, k, k)

\* s[k-1:] in Python terms: the text from 1-based position k on
From(s, k) == SubSeq(s, k, Len(s))

\* s.startswith(p), looked up at 1-based position k
MatchAt(s, p, k) == k >= 1 /\ k + Len(p) - 1 <= Len(s) /\ SubSeq(s, k, k + Len(p) - 1) = p

StartsWith(s, p) == MatchAt(s, p, 1)

\* p in s
Contains(s, p) == \E k \in 1..(Len(s) + 1) : MatchAt(s, p, k)

\* s.find(p, k-1) + 1: the first position >= k where p occurs, 0 when none
Find(s, p, k) ==
    LET hits == {j \in k..(Len(s) + 1) : MatchAt(s, p, j)}
    IN  IF hits = {} THEN 0 ELSE CHOOSE j \in hits : \A h \in hits : j <= h

\* s.rfind(c) + 1 for a one-character c
RFind(s, c) ==
    LET hits == {j \in 1..Len(s) : Char(s, j) = c}
    IN  IF hits = {} THEN 0 ELSE CHOOSE j \in hits : \A h \in hits : j >= h

UPPER == "ABCDEFGHIJKLMNOPQRSTUVWXYZ"
LOWERCASE == "abcdefghijklmnopqrstuvwxyz"

\* the lowercase letter of each uppercase letter
LowerOf == [c \in {Char(UPPER, k) : k \in 1..Len(UPPER)} |->
               Char(LOWERCASE, CHOOSE k \in 1..Len(UPPER) : Char(UPPER, k) = c)]

LowerChar(c) == IF c \in DOMAIN LowerOf THEN LowerOf[c] ELSE c

\* s.lower(): character by character (the text is halved to keep the evaluation
\* shallow)
RECURSIVE Lower(_)
Lower(s) ==
    IF Len(s) = 0 THEN ""
    ELSE IF Len(s) = 1 THEN LowerChar(s)
    ELSE Lower(SubSeq(s, 1, Len(s) \div 2)) \o Lower(From(s, Len(s) \div 2 + 1))

\* the characters str.strip() removes (those the model's inputs can hold)
WHITESPACE == {" ", "\t", "\n", "\r"}

\* s.rstrip('\n')
RECURSIVE RStripNL(_)
RStripNL(s) ==
    IF s # "" /\ Char(s, Len(s)) = "\n" THEN RStripNL(SubSeq(s, 1, Len(s) - 1)) ELSE s

\* s.strip()
RECURSIVE Strip(_)
Strip(s) ==
    IF s # "" /\ Char(s, 1) \in WHITESPACE THEN Strip(From(s, 2))
    ELSE IF s # "" /\ Char(s, Len(s)) \in WHITESPACE THEN Strip(SubSeq(s, 1, Len(s) - 1))
    ELSE s

\* s.replace(old, new): every non-overlapping occurrence, left to right
RECURSIVE Replace(_, _, _)
Replace(s, old, new) ==
    LET k == Find(s, old, 1)
    IN  IF k = 0 THEN s
        ELSE SubSeq(s, 1, k - 1) \o new \o Replace(From(s, k + Len(old)), old, new)

\* s.split(sep): the segments, left to right
RECURSIVE Split(_, _)
Split(s, sep) ==
    LET k == Find(s, sep, 1)
    IN  IF k = 0 THEN <<s>>
        ELSE <<SubSeq(s, 1, k - 1)>> \o Split(From(s, k + Len(sep)), sep)

\* sep.join(seq)
RECURSIVE Join(_, _)
Join(seq, sep) ==
    IF seq = <<>> THEN ""
    ELSE IF Len(seq) = 1 THEN seq[1]
    ELSE seq[1] \o sep \o Join(Tail(seq), sep)

\* the length of the longest run of characters other than c starting at k
RunNot(s, c, k) ==
    LET j == Find(s, c, k)
    IN  IF k > Len(s) THEN 0 ELSE IF j = 0 THEN Len(s) - k + 1 ELSE j - k

-----------------------------------------------------------------------------
(* The two tables *)

\* COUNTRY_TO_CONTINENT, in definition order: <<code, continent, country name>>
COUNTRY_TO_CONTINENT ==
    << <<"KR", "~asia", "~daehanminguk">>,
       <<"JP", "~asia", "~ilbon">>,
       <<"CN", "~asia", "~jungguk">>,
       <<"IN", "~asia", "~indo">>,
       <<"ID", "~asia", "~indonesia">>,
       <<"SG", "~asia", "~singgaporeu">>,
       <<"VN", "~asia", "~beteunam">>,
       <<"TH", "~asia", "~taeguk">>,
       <<"MY", "~asia", "~malleisia">>,
       <<"PH", "~asia", "~pillipin">>,
       <<"GB", "~yureop", "~yeongguk">>,
       <<"FR", "~yureop", "~peurangseu">>,
       <<"DE", "~yureop", "~dogil">>,
       <<"IT", "~yureop", "~itallia">>,
       <<"ES", "~yureop", "~seupein">>,
       <<"RU", "~yureop", "~reosia">>,
       <<"NL", "~yureop", "~nedeollandeu">>,
       <<"PL", "~yureop", "~pollandeu">>,
       <<"PT", "~yureop", "~poreutugal">>,
       <<"SE", "~yureop", "~seuweden">>,
       <<"US", "~bukmi", "~miguk">>,
       <<"CA", "~bukmi", "~kaenada">>,
       <<"MX", "~bukmi", "~meksiko">>,
       <<"CU", "~bukmi", "~kuba">>,
       <<"DO", "~bukmi", "~dominika ~gonghwaguk">>,
       <<"BR", "~nammi", "~beurajil">>,
       <<"AR", "~nammi", "~areuhentina">>,
       <<"CO", "~nammi", "~kollombia">>,
       <<"CL", "~nammi", "~chille">>,
       <<"PE", "~nammi", "~peru">>,
       <<"AU", "~oseania", "~hoju">>,
       <<"NZ", "~oseania", "~nyujillaendeu">>,
       <<"ZA", "~apeurika", "~namapeurika ~gonghwaguk">>,
       <<"EG", "~apeurika", "~ijipteu">>,
       <<"NG", "~apeurika", "~naijiria">>,
       <<"KE", "~apeurika", "~kenya">> >>

\* "기타" (Other): the fallback label of both tables
GITA == "~gita"

\* "★ Favorites"
FAVORITES == "* Favorites"

\* GENRE_MAP, in definition order (the order dict iteration follows): <<key, label>>
GENRE_MAP ==
    << <<"news", "~nyuseu">>,
       <<"sport", "~seupocheu">>,
       <<"sports", "~seupocheu">>,
       <<"movie", "~yeonghwa/~deurama">>,
       <<"movies", "~yeonghwa/~deurama">>,
       <<"film", "~yeonghwa/~deurama">>,
       <<"kids", "~kijeu">>,
       <<"children", "~kijeu">>,
       <<"music", "~eumak">>,
       <<"religion", "~jonggyo">>,
       <<"religious", "~jonggyo">>,
       <<"documentary", "~dakyu">>,
       <<"docu", "~dakyu">>,
       <<"lifestyle", "~laipeuseutail">>,
       <<"shopping", "~syoping">>,
       <<"entertainment", "~enteoteinmeonteu">>,
       <<"general", "~enteoteinmeonteu">> >>

\* COUNTRY_TO_CONTINENT.get(cc, ("기타", cc or "기타")): <<continent, country_name>>
\* a plausible slip: the default country name is cc, without the  or "기타"
CountryGetNoDefault(cc) ==
    IF \E k \in 1..Len(COUNTRY_TO_CONTINENT) : COUNTRY_TO_CONTINENT[k][1] = cc
    THEN LET k == CHOOSE k \in 1..Len(COUNTRY_TO_CONTINENT) : COUNTRY_TO_CONTINENT[k][1] = cc
         IN  <<COUNTRY_TO_CONTINENT[k][2], COUNTRY_TO_CONTINENT[k][3]>>
    ELSE <<GITA, cc>>

CountryGet(cc) ==
    IF \E k \in 1..Len(COUNTRY_TO_CONTINENT) : COUNTRY_TO_CONTINENT[k][1] = cc
    THEN LET k == CHOOSE k \in 1..Len(COUNTRY_TO_CONTINENT) : COUNTRY_TO_CONTINENT[k][1] = cc
         IN  <<COUNTRY_TO_CONTINENT[k][2], COUNTRY_TO_CONTINENT[k][3]>>
    ELSE <<GITA, IF cc # "" THEN cc ELSE GITA>>

-----------------------------------------------------------------------------
(* The pure functions *)

\* the loop of normalise_genre from the k-th entry of the table on
RECURSIVE GenreLoop(_, _)
GenreLoop(lower, k) ==
    IF k > Len(GENRE_MAP) THEN GITA
    ELSE IF Contains(lower, GENRE_MAP[k][1]) THEN GENRE_MAP[k][2]
    ELSE GenreLoop(lower, k + 1)

\* a plausible slip: the table walked from its last entry to its first
RECURSIVE GenreLoopBackwards(_, _)
GenreLoopBackwards(lower, k) ==
    IF k < 1 THEN GITA
    ELSE IF Contains(lower, GENRE_MAP[k][1]) THEN GENRE_MAP[k][2]
    ELSE GenreLoopBackwards(lower, k - 1)

normalise_genre_backwards(original) ==
    IF original = "" THEN GITA ELSE GenreLoopBackwards(Lower(original), Len(GENRE_MAP))

normalise_genre(original) ==
    IF original = "" THEN GITA ELSE GenreLoop(Lower(original), 1)

\* re.search of an alternation of literals: whether any alternative occurs.
\* An optional element of the pattern is written out as its two spellings.
SearchAny(alternatives, text) == \E a \in alternatives : Contains(text, a)

\* (2160p?|4k|uhd)
RE_UHD == {"2160p", "2160", "4k", "uhd"}

\* (1080p?|fhd|full[\s_-]?hd)
RE_FHD == {"1080p", "1080", "fhd", "fullhd", "full_hd", "full-hd"}
              \cup {"full" \o w \o "hd" : w \in WHITESPACE}

\* (720p?|hd)
RE_HD == {"720p", "720", "hd"}

\* a plausible slip: the generic HD test placed before the FHD test
detect_resolution_tag_hd_first(text) ==
    LET lower == Lower(text)
    IN  IF SearchAny(RE_UHD, lower) THEN "UHD"
        ELSE IF SearchAny(RE_HD, lower) THEN "HD"
        ELSE IF SearchAny(RE_FHD, lower) THEN "FHD"
        ELSE "SD"

detect_resolution_tag(text) ==
    LET lower == Lower(text)
    IN  IF SearchAny(RE_UHD, lower) THEN "UHD"
        ELSE IF SearchAny(RE_FHD, lower) THEN "FHD"
        ELSE IF SearchAny(RE_HD, lower) THEN "HD"
        ELSE "SD"

\* pat.search(name) for a pattern compiled with re.IGNORECASE; the favourites of
\* the model are literal patterns (no regular-expression operators)
PatSearch(pat, name) == Contains(Lower(name), Lower(pat))

match_favorite(name, patterns) ==
    \E k \in 1..Len(patterns) : PatSearch(patterns[k], name)

-----------------------------------------------------------------------------
(* The regular expressions of build_personalised_playlist *)

QUOTE == "\""
BACKSLASH == "\\"
EXTINF == "#EXTINF"
GROUP_ATTR == "group-title=\""
COUNTRY_ATTR == "tvg-country=\""

\* Whether the pattern  lit [^"]{least,} "  matches s at position k
AttrMatchAt(s, lit, least, k) ==
    /\ MatchAt(s, lit, k)
    /\ LET n == RunNot(s, QUOTE, k + Len(lit))
       IN  n >= least /\ k + Len(lit) + n <= Len(s)

\* re.search(lit + '([^"]+)"', s): the position of the leftmost match at or after
\* from, 0 when there is none
AttrSearch(s, lit, least, from) ==
    LET hits == {k \in from..Len(s) : AttrMatchAt(s, lit, least, k)}
    IN  IF hits = {} THEN 0 ELSE CHOOSE k \in hits : \A h \in hits : k <= h

\* m.group(1) of that match (cc_match, cat_match), "" when there is no match
AttrValue(s, lit) ==
    LET k == AttrSearch(s, lit, 1, 1)
    IN  IF k = 0 THEN ""
        ELSE SubSeq(s, k + Len(lit), k + Len(lit) + RunNot(s, QUOTE, k + Len(lit)) - 1)

\* The escapes re gives a meaning in a replacement template, with their text
TEMPLATE_ESCAPES == {<<"n", "\n">>, <<"t", "\t">>, <<"r", "\r">>, <<BACKSLASH, BACKSLASH>>}

\* What re rejects after a backslash in a template: a digit 1-9 (a group the
\* pattern does not have: neither pattern of the rewriter has a group) and an
\* ASCII letter that is no escape.  The letters a, b, f, v, g and the digit 0,
\* which re treats in ways of their own, are outside the model's inputs.
TEMPLATE_REJECTS ==
    {Char("123456789", k) : k \in 1..9}
        \cup (({Char(UPPER, k) : k \in 1..26} \cup {Char(LOWERCASE, k) : k \in 1..26})
                  \ {"n", "t", "r"})

\* re's reading of the replacement template of re.sub: err when re.error is
\* raised, otherwise the text the template stands for.  Any other character after
\* a backslash leaves both characters as they are.
RECURSIVE ExpandTemplate(_)
ExpandTemplate(t) ==
    LET b == Find(t, BACKSLASH, 1)
    IN  IF b = 0 THEN [err |-> FALSE, text |-> t]
        ELSE IF b = Len(t) \/ Char(t, b + 1) \in TEMPLATE_REJECTS
        THEN [err |-> TRUE, text |-> ""]
        ELSE LET rest == ExpandTemplate(From(t, b + 2))
                 c == Char(t, b + 1)
                 known == {e \in TEMPLATE_ESCAPES : e[1] = c}
                 lit == IF known = {} THEN BACKSLASH \o c
                        ELSE (CHOOSE e \in known : TRUE)[2]
             IN  [err |-> rest.err,
                  text |-> IF rest.err THEN "" ELSE SubSeq(t, 1, b - 1) \o lit \o rest.text]

\* every non-overlapping match of  group-title="[^"]*"  in s replaced by new
RECURSIVE SubGroupAll(_, _)
SubGroupAll(s, new) ==
    LET k == AttrSearch(s, GROUP_ATTR, 0, 1)
        e == k + Len(GROUP_ATTR) + RunNot(s, QUOTE, k + Len(GROUP_ATTR))
    IN  IF k = 0 THEN s
        ELSE SubSeq(s, 1, k - 1) \o new \o SubGroupAll(From(s, e + 1), new)

\* re.sub(r'group-title="[^"]*"', f'group-title="{new_group}"', ext): the template
\* is read before any match is looked for
SubGroup(ext, new_group) ==
    LET t == ExpandTemplate(GROUP_ATTR \o new_group \o QUOTE)
    IN  IF t.err THEN t ELSE [err |-> FALSE, text |-> SubGroupAll(ext, t.text)]

\* re.sub(r',[^,]*$', f',{final_name}', s): the one match runs from the last comma
\* to the end of s (a final newline included)
SubName(s, final_name) ==
    LET t == ExpandTemplate("," \o final_name)
        k == RFind(s, ",")
    IN  IF t.err THEN t
        ELSE [err |-> FALSE, text |-> IF k = 0 THEN s ELSE SubSeq(s, 1, k - 1) \o t.text]

\* a plausible slip: the substitution written with [^"]+, as the search for the
\* category is, so that an empty group-title is left as it is
RECURSIVE SubGroupNonEmpty(_, _)
SubGroupNonEmpty(s, new) ==
    LET k == AttrSearch(s, GROUP_ATTR, 1, 1)
        e == k + Len(GROUP_ATTR) + RunNot(s, QUOTE, k + Len(GROUP_ATTR))
    IN  IF k = 0 THEN s
        ELSE SubSeq(s, 1, k - 1) \o new \o SubGroupNonEmpty(From(s, e + 1), new)

replace_or_append_group_nonempty(ext, new_group) ==
    LET t == ExpandTemplate(GROUP_ATTR \o new_group \o QUOTE)
    IN  IF ~Contains(ext, GROUP_ATTR)
        THEN [err |-> FALSE,
              text |-> Replace(ext, EXTINF, EXTINF \o " " \o GROUP_ATTR \o new_group \o QUOTE)]
        ELSE IF t.err THEN t
        ELSE [err |-> FALSE, text |-> SubGroupNonEmpty(ext, t.text)]

replace_or_append_group(ext, new_group) ==
    IF Contains(ext, GROUP_ATTR)
    THEN SubGroup(ext, new_group)
    ELSE [err |-> FALSE,
          text |-> Replace(ext, EXTINF, EXTINF \o " " \o GROUP_ATTR \o new_group \o QUOTE)]

\* the rewritten header for one target group: replace_or_append_group, then the
\* rewrite of the trailing name; err when either raises
RewriteHeader(extinf, new_group, final_name) ==
    LET g == replace_or_append_group(extinf, new_group)
    IN  IF g.err THEN g ELSE SubName(g.text, final_name)

\* country_codes[0] of cc_match.group(1).split(';'), '' without a match
CountryCode(extinf) ==
    LET v == AttrValue(extinf, COUNTRY_ATTR)
    IN  IF v = "" THEN "" ELSE Split(v, ";")[1]

\* group_title = f"{continent} - {country_name} - {genre}"
GroupTitle(extinf) ==
    LET geo == CountryGet(CountryCode(extinf))
    IN  geo[1] \o " - " \o geo[2] \o " - " \o normalise_genre(AttrValue(extinf, GROUP_ATTR))

\* final_name
FinalName(extinf, name, flag) ==
    IF flag THEN name \o " [" \o detect_resolution_tag(extinf \o " " \o name) \o "]" ELSE name

-----------------------------------------------------------------------------
(* Files *)

\* no file at output_path
ABSENT == [exists |-> FALSE, text |-> ""]

\* a file at output_path holding text
FileOf(text) == [exists |-> TRUE, text |-> text]

\* the value of rec outside an iteration
NO_REC == [extinf |-> "", url |-> "", name |-> "", group_title |-> ""]

\* the text of a file whose lines (without terminators) are body, each line ended
\* by a newline
FileText(body) == IF body = <<>> THEN "" ELSE Join(body, "\n") \o "\n"

\* infile.readlines(): the lines of text, each with its "\n", the last without
\* one when text does not end in a newline
RECURSIVE ReadLines(_)
ReadLines(text) ==
    LET k == Find(text, "\n", 1)
    IN  IF text = "" THEN <<>>
        ELSE IF k = 0 THEN <<text>>
        ELSE <<SubSeq(text, 1, k)>> \o ReadLines(From(text, k + 1))

-----------------------------------------------------------------------------
(* build_personalised_playlist *)

\* with open(input_path) ...: lines = infile.readlines(); out_lines = ['#EXTM3U']; i = 0
ReadInput ==
    /\ pc = "start"
    /\ lines' = input
    /\ out_lines' = <<"#EXTM3U">>
    /\ i' = 0
    /\ pc' = "scan"
    /\ UNCHANGED <<input, fav_patterns, append_res_tag, rec, outfile, run, first_input, arg, ret>>

\* open(input_path) or readlines raises OSError: the run ends there
ReadFails ==
    /\ pc = "start"
    /\ pc' = "failed"
    /\ UNCHANGED <<input, fav_patterns, append_res_tag, lines, i, out_lines, rec, outfile,
                   run, first_input, arg, ret>>

\* One pass of the while loop up to the group title (lines 207-230): a line that
\* is no header is passed over; a header takes the next line with it (header_step
\* is the 2 of i += 2), and is dropped when it holds no comma
ScanStep(header_step) ==
    /\ pc = "scan"
    /\ i < Len(lines)
    /\ LET line == RStripNL(lines[i + 1])
           url == IF i + 1 < Len(lines) THEN Strip(lines[i + 2]) ELSE ""
           comma == RFind(line, ",")
       IN  IF ~StartsWith(line, EXTINF)
           THEN /\ i' = i + 1
                /\ UNCHANGED <<pc, rec>>
           ELSE /\ i' = i + header_step
                /\ IF comma = 0
                   THEN UNCHANGED <<pc, rec>>
                   ELSE /\ pc' = "rewrite"
                        /\ rec' = [extinf |-> line, url |-> url,
                                   name |-> Strip(From(line, comma + 1)),
                                   group_title |-> GroupTitle(line)]
    /\ UNCHANGED <<input, fav_patterns, append_res_tag, lines, out_lines, outfile, run,
                   first_input, arg, ret>>

\* a plausible slip: i += 1 after a header, so that its address is scanned again
ScanOneLine == ScanStep(1)

Scan == ScanStep(2)

\* a plausible slip: "else" before the main entry, so that a favourite goes to the
\* favourites group only
RewriteEitherOr ==
    /\ pc = "rewrite"
    /\ LET final_name == FinalName(rec.extinf, rec.name, append_res_tag)
           fav == match_favorite(rec.name, fav_patterns)
           fav_extinf == RewriteHeader(rec.extinf, FAVORITES, final_name)
           new_extinf == RewriteHeader(rec.extinf, rec.group_title, final_name)
       IN  IF fav
           THEN IF fav_extinf.err
                THEN pc' = "failed" /\ UNCHANGED out_lines
                ELSE pc' = "scan" /\ out_lines' = out_lines \o <<fav_extinf.text, rec.url>>
           ELSE IF new_extinf.err
                THEN pc' = "failed" /\ UNCHANGED out_lines
                ELSE pc' = "scan" /\ out_lines' = out_lines \o <<new_extinf.text, rec.url>>
    /\ rec' = NO_REC
    /\ UNCHANGED <<input, fav_patterns, append_res_tag, lines, i, outfile, run, first_input,
                   arg, ret>>

\* The rest of the pass (lines 231-253): the final name, the favourites entry if
\* the name matches, the main entry.  A re.error raised by either re.sub ends the
\* run; the entry appended before it stays in out_lines, which is never written.
Rewrite ==
    /\ pc = "rewrite"
    /\ LET final_name == FinalName(rec.extinf, rec.name, append_res_tag)
           fav == match_favorite(rec.name, fav_patterns)
           fav_extinf == RewriteHeader(rec.extinf, FAVORITES, final_name)
           new_extinf == RewriteHeader(rec.extinf, rec.group_title, final_name)
           with_fav == IF fav THEN out_lines \o <<fav_extinf.text, rec.url>> ELSE out_lines
       IN  IF fav /\ fav_extinf.err
           THEN pc' = "failed" /\ UNCHANGED out_lines
           ELSE IF new_extinf.err
           THEN pc' = "failed" /\ out_lines' = with_fav
           ELSE pc' = "scan" /\ out_lines' = with_fav \o <<new_extinf.text, rec.url>>
    /\ rec' = NO_REC
    /\ UNCHANGED <<input, fav_patterns, append_res_tag, lines, i, outfile, run, first_input,
                   arg, ret>>

\* the while condition fails: on to the output
EndScan ==
    /\ pc = "scan"
    /\ i >= Len(lines)
    /\ pc' = "open"
    /\ UNCHANGED <<input, fav_patterns, append_res_tag, lines, i, out_lines, rec, outfile,
                   run, first_input, arg, ret>>

\* os.makedirs if needed, then open(output_path, 'w'): the file exists and is empty
OpenOutput ==
    /\ pc = "open"
    /\ outfile' = FileOf("")
    /\ pc' = "write"
    /\ UNCHANGED <<input, fav_patterns, append_res_tag, lines, i, out_lines, rec, run,
                   first_input, arg, ret>>

\* os.makedirs or open raises OSError: nothing is created
OpenFails ==
    /\ pc = "open"
    /\ pc' = "failed"
    /\ UNCHANGED <<input, fav_patterns, append_res_tag, lines, i, out_lines, rec, outfile,
                   run, first_input, arg, ret>>

\* outfile.write('\n'.join(out_lines)) and the close of the with block
WriteOutput ==
    /\ pc = "write"
    /\ outfile' = FileOf(Join(out_lines, "\n"))
    /\ pc' = "done"
    /\ UNCHANGED <<input, fav_patterns, append_res_tag, lines, i, out_lines, rec, run,
                   first_input, arg, ret>>

\* write or the closing flush raises OSError (a full disk, a lost mount): nothing
\* removes the file, which keeps what reached it, some proper prefix of the text.
\* The model takes the empty prefix and the half.
WriteFails ==
    /\ pc = "write"
    /\ \E n \in {0, Len(Join(out_lines, "\n")) \div 2} :
           outfile' = FileOf(SubSeq(Join(out_lines, "\n"), 1, n))
    /\ pc' = "failed"
    /\ UNCHANGED <<input, fav_patterns, append_res_tag, lines, i, out_lines, rec, run,
                   first_input, arg, ret>>

Next ==
    \/ ReadInput
    \/ ReadFails
    \/ Scan
    \/ Rewrite
    \/ EndScan
    \/ OpenOutput
    \/ OpenFails
    \/ WriteOutput
    \/ WriteFails

\* The run over the first run's output (the idempotence scenario): the favourites
\* entries are taken out of the written playlist, which becomes the input of a
\* second run with the same flags and a fresh output path
RECURSIVE StripFavorites(_)
StripFavorites(ls) ==
    IF ls = <<>> THEN <<>>
    ELSE IF StartsWith(ls[1], EXTINF) /\ Contains(ls[1], GROUP_ATTR \o FAVORITES \o QUOTE)
    THEN StripFavorites(SubSeq(ls, 3, Len(ls)))
    ELSE <<ls[1]>> \o StripFavorites(Tail(ls))

Rerun ==
    /\ pc = "done"
    /\ run = 1
    /\ run' = 2
    /\ first_input' = input
    /\ input' = StripFavorites(ReadLines(outfile.text))
    /\ pc' = "start"
    /\ lines' = <<>>
    /\ i' = 0
    /\ out_lines' = <<>>
    /\ outfile' = ABSENT
    /\ UNCHANGED <<fav_patterns, append_res_tag, rec, arg, ret>>

NextRerun == Next \/ Rerun

-----------------------------------------------------------------------------
(* The inputs *)

\* the lines a playlist of the model is made of, without their terminators: a
\* header of a favourite, a plain header, a header with no comma, a header whose
\* name holds a backslash, an address with blanks around it, an empty line
PlaylistLines ==
    { "#EXTINF:-1 tvg-country=\"KR\" group-title=\"News\",KBS1",
      "#EXTINF:-1,CNN",
      "#EXTINF:-1 tvg-id=\"x\"",
      "#EXTINF:-1,Fox\\Sports",
      " http://x/1\t",
      "" }

\* the longest playlist, in lines
MaxLines == 3

Playlists == UNION {[1..n -> PlaylistLines] : n \in 0..MaxLines}

\* the favourites: none, or the pattern kbs
FavouriteLists == {<<>>, <<"kbs">>}

\* the state at the entry of build_personalised_playlist
Start(ls, favs, flag) ==
    /\ input = ls
    /\ fav_patterns = favs
    /\ append_res_tag = flag
    /\ pc = "start"
    /\ lines = <<>>
    /\ i = 0
    /\ out_lines = <<>>
    /\ rec = NO_REC
    /\ outfile = ABSENT
    /\ run = 1
    /\ first_input = <<>>
    /\ arg = ""
    /\ ret = ""

Init ==
    \E body \in Playlists, favs \in FavouriteLists, flag \in BOOLEAN :
        Start(ReadLines(FileText(body)), favs, flag)

Spec == Init /\ [][Next]_vars

\* One-record playlists whose header is put together from parts:
\*     #EXTINF:-1 [country attribute] [group attributes] [,name]

\* the tvg-country attribute: absent, a table code, an unknown code before a table
\* code, codes holding " - ", ending in " -", being " -", holding a comma, a
\* backslash
CountryParts ==
    { "",
      " tvg-country=\"KR\"",
      " tvg-country=\"ZZ;KR\"",
      " tvg-country=\"A - B\"",
      " tvg-country=\"B -\"",
      " tvg-country=\" -\"",
      " tvg-country=\"A,B\"",
      " tvg-country=\"\\1\"" }

\* a group-title attribute: a genre key, no value, a value holding a genre key, a
\* comma and a resolution marker, a value with no closing quote
GroupParts ==
    { " group-title=\"News\"",
      " group-title=\"\"",
      " group-title=\"Kids,HD\"",
      " group-title=\"x" }

\* the most group-title attributes in a header
MaxGroups == 2

RECURSIVE GroupTexts(_)
GroupTexts(n) ==
    IF n = 0 THEN {""}
    ELSE GroupTexts(n - 1) \cup {t \o g : t \in GroupTexts(n - 1), g \in GroupParts}

\* the end of the header: no comma at all, a favourite, a name holding a
\* backslash, a name that reads as a group attribute, a name holding the marker
\* and a resolution marker
NameParts ==
    { "",
      ",KBS1",
      ",Fox\\Sports",
      ",group-title=\"x\"",
      ", CNN #EXTINF 1080p HD " }

Headers ==
    {EXTINF \o ":-1" \o c \o g \o n :
        c \in CountryParts, g \in GroupTexts(MaxGroups), n \in NameParts}

InitHeader ==
    \E h \in Headers, flag \in BOOLEAN :
        Start(ReadLines(FileText(<<h, "http://x/1">>)), <<"kbs">>, flag)

SpecHeader == InitHeader /\ [][Next]_vars

SpecRerun == InitHeader /\ [][NextRerun]_vars

-----------------------------------------------------------------------------
(* The pure functions on their own: an argument is drawn, the function is called *)

\* the state before a call of a pure function on text
Call(text) ==
    /\ arg = text
    /\ ret = ""
    /\ pc = "call"
    /\ input = <<>>
    /\ fav_patterns = <<>>
    /\ append_res_tag = FALSE
    /\ lines = <<>>
    /\ i = 0
    /\ out_lines = <<>>
    /\ rec = NO_REC
    /\ outfile = ABSENT
    /\ run = 1
    /\ first_input = <<>>

RECURSIVE Texts(_, _)
Texts(chunks, n) ==
    IF n = 0 THEN {""}
    ELSE Texts(chunks, n - 1) \cup {t \o c : t \in Texts(chunks, n - 1), c \in chunks}

\* the pieces the texts given to detect_resolution_tag are made of
TagChunks == {"2160", "1080p", "720", "4", "K", "U", "F", "HD", "Full", " ", "_", "x1"}

\* the most pieces in such a text
MaxTagChunks == 3

InitTag == \E text \in Texts(TagChunks, MaxTagChunks) : Call(text)

DetectTag ==
    /\ pc = "call"
    /\ ret' = detect_resolution_tag(arg)
    /\ pc' = "return"
    /\ UNCHANGED <<input, fav_patterns, append_res_tag, lines, i, out_lines, rec, outfile,
                   run, first_input, arg>>

SpecTag == InitTag /\ [][DetectTag]_vars

\* the pieces the categories given to normalise_genre are made of
GenreChunks ==
    {"News", "Sport", "s", "Movie", "Kids", "Docu", "mentary", " HD", "Religio", "n",
     "us"}

\* the most pieces in a category
MaxGenreChunks == 3

InitGenre == \E text \in Texts(GenreChunks, MaxGenreChunks) : Call(text)

NormaliseGenre ==
    /\ pc = "call"
    /\ ret' = normalise_genre(arg)
    /\ pc' = "return"
    /\ UNCHANGED <<input, fav_patterns, append_res_tag, lines, i, out_lines, rec, outfile,
                   run, first_input, arg>>

SpecGenre == InitGenre /\ [][NormaliseGenre]_vars

-----------------------------------------------------------------------------
(* Claims about the pure functions *)

\* text holds marker, letter case ignored
HoldsMarker(text, marker) ==
    LET low == Lower(text)
    IN  \E k \in 1..Len(low) :
            k + Len(marker) - 1 <= Len(low) /\ SubSeq(low, k, k + Len(marker) - 1) = marker

UHD_MARKERS == {"2160", "4k", "uhd"}

\* "full hd", written with one separator or none between the two words
HoldsFullHd(text) ==
    LET low == Lower(text)
        at(k, word) == k + Len(word) - 1 <= Len(low) /\ SubSeq(low, k, k + Len(word) - 1) = word
    IN  \E k \in 1..Len(low) :
            /\ at(k, "full")
            /\ \/ at(k + 4, "hd")
               \/ \E sep \in WHITESPACE \cup {"_", "-"} : at(k + 4, sep) /\ at(k + 5, "hd")

HasUhdMarker(text) == \E m \in UHD_MARKERS : HoldsMarker(text, m)
HasFhdMarker(text) == HoldsMarker(text, "1080") \/ HoldsMarker(text, "fhd") \/ HoldsFullHd(text)
HasHdMarker(text) == HoldsMarker(text, "720") \/ HoldsMarker(text, "hd")

\* C4: detect_resolution_tag returns one of UHD, FHD, HD, SD for every text, the
\* first test that matches deciding: UHD when the text holds a UHD marker; FHD
\* when it holds an FHD marker and no UHD marker (so never HD for a text with both
\* "1080" and "hd"); HD when it holds an HD marker and neither of the others; SD
\* when it holds no marker.
C4_TagPrecedence ==
    pc = "return" =>
        /\ ret \in {"UHD", "FHD", "HD", "SD"}
        /\ HasUhdMarker(arg) => ret = "UHD"
        /\ (HasFhdMarker(arg) /\ ~HasUhdMarker(arg)) => ret = "FHD"
        /\ (HasHdMarker(arg) /\ ~HasFhdMarker(arg) /\ ~HasUhdMarker(arg)) => ret = "HD"
        /\ (~HasHdMarker(arg) /\ ~HasFhdMarker(arg) /\ ~HasUhdMarker(arg)) => ret = "SD"

\* a text with both "1080" and "hd" has been classified FHD
C4_Witness ==
    /\ pc = "return"
    /\ HoldsMarker(arg, "1080") /\ HoldsMarker(arg, "hd") /\ ~HasUhdMarker(arg)
    /\ ret = "FHD"

\* the places of GENRE_MAP whose key occurs in the lowercased category
KeysIn(category) == {k \in 1..Len(GENRE_MAP) : HoldsMarker(category, GENRE_MAP[k][1])}

\* C10: normalise_genre returns "기타" for an empty category and for one no key of
\* GENRE_MAP occurs in; otherwise the label of the key that comes first in the
\* table among those occurring in the lowercased category, wherever in the
\* category they stand.
C10_GenreFirstMatch ==
    pc = "return" =>
        IF arg = "" \/ KeysIn(arg) = {} THEN ret = GITA
        ELSE \E k \in KeysIn(arg) :
                 /\ \A h \in KeysIn(arg) : k <= h
                 /\ ret = GENRE_MAP[k][2]

\* a category holding the keys of two labels, the later key of the table standing
\* first in the text, has got the label of the earlier key
C10_Witness ==
    /\ pc = "return"
    /\ arg = "SportNews"
    /\ ret = "~nyuseu"

-----------------------------------------------------------------------------
(* Claims about the scan and the output *)

IsPrefix(a, b) == Len(a) <= Len(b) /\ SubSeq(b, 1, Len(a)) = a

\* the address lines of an output: every second line after the playlist marker
OutAddresses(out) ==
    IF Len(out) < 3 THEN <<>> ELSE [k \in 1..((Len(out) - 1) \div 2) |-> out[2 * k + 1]]

\* The units of a playlist, read off its lines: each header met takes the line
\* after it (next holds that line, or nothing when the header is the last line)
RECURSIVE Units(_)
Units(ls) ==
    IF ls = <<>> THEN <<>>
    ELSE IF StartsWith(ls[1], EXTINF)
    THEN <<[header |-> RStripNL(ls[1]),
            next |-> IF Len(ls) >= 2 THEN <<ls[2]>> ELSE <<>>]>>
             \o Units(SubSeq(ls, 3, Len(ls)))
    ELSE Units(Tail(ls))

HasComma(header) == \E k \in 1..Len(header) : Char(header, k) = ","

\* the display name of a header holding a comma
NameOf(header) == Strip(From(header, RFind(header, ",") + 1))

IsFavourite(u) == HasComma(u.header) /\ match_favorite(NameOf(u.header), fav_patterns)

\* each address line of the input, once, or twice for a favourite
RECURSIVE InputAddresses(_)
InputAddresses(us) ==
    IF us = <<>> THEN <<>>
    ELSE LET u == us[1]
             a == IF u.next = <<>> THEN <<>> ELSE <<Strip(u.next[1])>>
         IN  (IF IsFavourite(u) THEN a \o a ELSE a) \o InputAddresses(Tail(us))

\* the address of each record (a unit whose header holds a comma), once, or twice
\* for a favourite; the address of a header that ends the input is empty
RECURSIVE RecordAddresses(_)
RecordAddresses(us) ==
    IF us = <<>> THEN <<>>
    ELSE LET u == us[1]
             a == IF u.next = <<>> THEN <<"">> ELSE <<Strip(u.next[1])>>
         IN  (IF ~HasComma(u.header) THEN <<>> ELSE IF IsFavourite(u) THEN a \o a ELSE a)
                 \o RecordAddresses(Tail(us))

\* C1 as claimed: the address lines of the written output are the address lines
\* of the input, in order, each once, or twice in a row for a favourite.
C1_RoundTrip ==
    pc = "done" => OutAddresses(out_lines) = InputAddresses(Units(lines))

\* C1 as amended: the address lines of the output are, in order, the addresses of
\* the records: of the units whose header holds a comma, the address being the
\* stripped line after the header, or the empty string when the header ends the
\* input; each once, or twice in a row for a favourite.  A unit whose header has
\* no comma leaves nothing.  Until the scan is complete (and in a run that stops
\* early) the addresses gathered so far are a prefix of that sequence.
C1_RoundTripOfRecords ==
    /\ pc \in {"open", "write", "done"}
           => OutAddresses(out_lines) = RecordAddresses(Units(lines))
    /\ pc \in {"scan", "rewrite", "failed"}
           => IsPrefix(OutAddresses(out_lines), RecordAddresses(Units(lines)))

\* a favourite, whose address stands twice, then a header that ends the input,
\* whose address is empty
C1_Witness ==
    /\ pc = "done"
    /\ Len(lines) = 3
    /\ OutAddresses(out_lines) = <<"http://x/1", "http://x/1", "">>

\* the entries a run appends for the units us, in order
RECURSIVE ExpectedEntries(_)
ExpectedEntries(us) ==
    IF us = <<>> THEN <<>>
    ELSE LET u == us[1]
             url == IF u.next = <<>> THEN "" ELSE Strip(u.next[1])
             final_name == FinalName(u.header, NameOf(u.header), append_res_tag)
             fav == RewriteHeader(u.header, FAVORITES, final_name).text
             main == RewriteHeader(u.header, GroupTitle(u.header), final_name).text
         IN  (IF ~HasComma(u.header) THEN <<>>
              ELSE (IF IsFavourite(u) THEN <<fav, url>> ELSE <<>>) \o <<main, url>>)
                 \o ExpectedEntries(Tail(us))

\* C9: each header the scan reaches forms a unit with the very next line, whatever
\* that line holds (the empty string when there is none), and both lines are
\* consumed; the unit yields a record exactly when its header holds a comma; no
\* other line yields anything; the records stand in the output in source order.
C9_Pairing ==
    /\ pc \in {"open", "write", "done"}
           => out_lines = <<"#EXTM3U">> \o ExpectedEntries(Units(lines))
    /\ pc \in {"scan", "rewrite", "failed"}
           => IsPrefix(out_lines, <<"#EXTM3U">> \o ExpectedEntries(Units(lines)))

\* a header has been taken as the address of the header before it, and the
\* address line after it has yielded nothing
C9_Witness ==
    /\ pc = "done"
    /\ Len(lines) = 3
    /\ Len(out_lines) = 3
    /\ StartsWith(out_lines[3], EXTINF)

\* the lines a step has appended to out_lines
Appended == SubSeq(out_lines', Len(out_lines) + 1, Len(out_lines'))

\* the text after the last comma of a header, <<>> when it holds no comma
Trailing(header) == IF HasComma(header) THEN <<From(header, RFind(header, ",") + 1)>> ELSE <<>>

\* C5: a record appends one entry when its name matches no favourite pattern and
\* two when it matches one; of the two, the favourites entry comes first, both
\* carry the same address and the same final display name, and nothing stands
\* between them.
C5_FanOut ==
    [][pc = "rewrite" =>
          LET final_name == FinalName(rec.extinf, rec.name, append_res_tag)
          IN  IF match_favorite(rec.name, fav_patterns)
              THEN /\ Len(Appended) = 4
                   /\ Contains(Appended[1], GROUP_ATTR \o FAVORITES \o QUOTE)
                   /\ Appended[2] = rec.url /\ Appended[4] = rec.url
                   /\ Trailing(Appended[1]) = <<final_name>>
                   /\ Trailing(Appended[3]) = <<final_name>>
              ELSE /\ Len(Appended) = 2
                   /\ Appended[2] = rec.url
                   /\ Trailing(Appended[1]) = <<final_name>>]_vars

\* C7: the rewriter has no failure mode: every record reaches the append of its
\* main entry, and the scan goes on.
C7_RewriterNeverFails ==
    [][pc = "rewrite" => (pc' = "scan" /\ Len(out_lines') >= Len(out_lines) + 2)]_vars

\* C8: the output is opened only when every input line has been processed; a run
\* that fails leaves no output file; a run that succeeds has written the whole
\* output.
C8_AllOrNothing ==
    /\ outfile.exists => (pc \in {"write", "done", "failed"} /\ i >= Len(lines))
    /\ pc = "failed" => ~outfile.exists
    /\ pc = "done" => (outfile.exists /\ outfile.text = Join(out_lines, "\n"))

-----------------------------------------------------------------------------
(* Claims about the labels and the rewritten headers *)

\* a label has exactly three " - "-separated segments, none empty
ThreeSegments(label) ==
    /\ Len(Split(label, " - ")) = 3
    /\ \A k \in 1..3 : Split(label, " - ")[k] # ""

\* C3 as claimed: the composite group label of every record has exactly three
\* " - "-separated segments, each non-empty.
C3_ThreeSegments == pc = "rewrite" => ThreeSegments(rec.group_title)

\* C3 as amended: the label has exactly three non-empty segments exactly when the
\* country code of the record (the first code of tvg-country) neither holds " - "
\* nor is " -"; so it has for every code of the table, for an absent attribute
\* and for every unknown code without such text.
C3_ThreeSegmentsUnlessSeparatorInCode ==
    pc = "rewrite" =>
        LET cc == CountryCode(rec.extinf)
        IN  ThreeSegments(rec.group_title) <=> (~Contains(cc, " - ") /\ cc # " -")

\* the label of a record with an unknown country code, which stands in it as the
\* country name
C3_Witness ==
    /\ pc = "rewrite"
    /\ CountryCode(rec.extinf) = "ZZ"
    /\ rec.group_title = "~gita - ZZ - ~nyuseu"

\* how often p occurs in s
Occurrences(s, p) == Cardinality({k \in 1..Len(s) : MatchAt(s, p, k)})

\* a rewritten header holds the group attribute once, with the target group as
\* its value (right after the marker when the source header had none), and its
\* text after the last comma is the final name
WellFormed(header, source, group, final_name) ==
    /\ Occurrences(header, GROUP_ATTR) = 1
    /\ Contains(header, GROUP_ATTR \o group \o QUOTE)
    /\ ~Contains(source, GROUP_ATTR)
           => StartsWith(header, EXTINF \o " " \o GROUP_ATTR \o group \o QUOTE)
    /\ Trailing(header) = <<final_name>>

\* C6: every header the rewriter emits holds exactly one group-title attribute
\* (an existing one replaced in place, otherwise one inserted right after the
\* #EXTINF marker) and exactly one trailing display-name field, the final name.
C6_OneGroupOneName ==
    [][(pc = "rewrite" /\ pc' = "scan") =>
          LET final_name == FinalName(rec.extinf, rec.name, append_res_tag)
              n == Len(Appended)
          IN  /\ WellFormed(Appended[n - 1], rec.extinf, rec.group_title, final_name)
              /\ n = 4 => WellFormed(Appended[1], rec.extinf, FAVORITES, final_name)]_vars

\* the value of the first group-title attribute of a header, <<>> when it has none
GroupOf(header) ==
    LET k == AttrSearch(header, GROUP_ATTR, 0, 1)
        v == k + Len(GROUP_ATTR)
    IN  IF k = 0 THEN <<>> ELSE <<SubSeq(header, v, v + RunNot(header, QUOTE, v) - 1)>>

\* the header of the record the first run read
FirstHeader == RStripNL(first_input[1])

\* C2 as claimed: in the run over the first run's output, the group label computed
\* for a record is the group-title the record already carries, the label computed
\* from the original header.
C2_Idempotent ==
    (run = 2 /\ pc = "rewrite") =>
        /\ GroupOf(rec.extinf) = <<rec.group_title>>
        /\ rec.group_title = GroupTitle(FirstHeader)

\* text is a sequence of attributes  key="value", each after one blank, with no
\* blank or double quote in a key and no double quote or equals sign in a value
RECURSIVE Attributes(_)
Attributes(text) ==
    \/ text = ""
    \/ /\ StartsWith(text, " ")
       /\ LET eq == Find(text, "=" \o QUOTE, 2)
              close == IF eq = 0 THEN 0 ELSE Find(text, QUOTE, eq + 2)
          IN  /\ eq > 2
              /\ close > 0
              /\ ~Contains(SubSeq(text, 2, eq - 1), " ")
              /\ ~Contains(SubSeq(text, 2, eq - 1), QUOTE)
              /\ ~Contains(SubSeq(text, eq + 2, close - 1), "=")
              /\ Attributes(From(text, close + 1))

\* a header of the form  #EXTINF:duration key="value" ... key="value",name  with
\* no double quote in the duration or the name, no backslash, and #EXTINF at its
\* start only
PlainHeader(header) ==
    /\ StartsWith(header, EXTINF \o ":")
    /\ Occurrences(header, EXTINF) = 1
    /\ ~Contains(header, BACKSLASH)
    /\ HasComma(header)
    /\ LET c == RFind(header, ",")
           head == SubSeq(header, Len(EXTINF) + 2, c - 1)
           d == RunNot(head, " ", 1)
       IN  /\ ~Contains(From(header, c + 1), QUOTE)
           /\ ~Contains(SubSeq(head, 1, d), QUOTE)
           /\ Attributes(From(head, d + 1))

\* C2 as amended: in the run over the first run's output, a record whose original
\* header is a plain one carries the label the first run computed for it, and the
\* label computed for it now has the continent and the country of that label and
\* the genre normalise_genre finds in the whole of that label (the label stands
\* where the category stood); so the group-title is reproduced only when that
\* genre is the genre the label already ends in.
C2_GenreRecomputed ==
    (run = 2 /\ pc = "rewrite" /\ PlainHeader(FirstHeader)) =>
        LET first == GroupTitle(FirstHeader)
            geo == CountryGet(CountryCode(FirstHeader))
        IN  /\ GroupOf(rec.extinf) = <<first>>
            /\ rec.group_title
                   = geo[1] \o " - " \o geo[2] \o " - " \o normalise_genre(first)

\* a news channel of Korea in the second run: its label has lost the genre
C2_Witness ==
    /\ run = 2
    /\ pc = "rewrite"
    /\ PlainHeader(FirstHeader)
    /\ GroupTitle(FirstHeader) = "~asia - ~daehanminguk - ~nyuseu"
    /\ GroupOf(rec.extinf) = <<"~asia - ~daehanminguk - ~nyuseu">>
    /\ rec.group_title = "~asia - ~daehanminguk - ~gita"

=============================================================================
